---- MODULE Spec2Model ----
(***************************************************************************)
(* FaceSwapPro: the start-up sequence (main.py, cli.py), the model         *)
(* provisioner (FaceSwapApp.verify_model), the orchestrator                *)
(* (FaceSwapApp.process_face_swap) and the presentation shell's run        *)
(* control (AppWindow.on_process / AppWindow.process_face_swap).           *)
(*                                                                         *)
(* Images are abstracted to where their pixels come from (the target, or   *)
(* the swap engine's output) and the enhancement stages applied to them.   *)
(* Library calls whose outcome the program cannot decide (cv2.imread,      *)
(* the detector, the swap engine, cv2.imwrite, urlopen, shutil.copy2) are  *)
(* nondeterministic choices over the outcomes they can produce.            *)
(***************************************************************************)
EXTENDS Integers, Sequences, FiniteSets, TLC

\* ------------------------------------------------------------- bounds
\* Regions the cascade classifier may report in an image.
MaxRegions == 1
\* Faces in a list a direct caller passes.
MaxFaces == 3
\* Heights, widths and max_size values a direct caller passes to resize_image.
MaxDim == 5
\* Worker threads the GUI may start in one behaviour.
MaxRuns == 2
\* User events (selections, on_process requests) in one behaviour.
MaxEvents == 3
\* A direct caller passes quality_level in (1 - QExtra)..(3 + QExtra).
QExtra == 1

\* ------------------------------------------------------------ values
Main == 0
Workers == 1..MaxRuns
Threads == {Main} \cup Workers

\* A path is its directory and the dot-separated parts of its basename.
NoPath == [dir |-> "", parts |-> <<>>]
F_duo == [dir |-> "data", parts |-> <<"duo", "jpg">>]
F_wall == [dir |-> "data", parts |-> <<"wall", "v2", "png">>]
F_junk == [dir |-> "data", parts |-> <<"junk", "jpeg">>]
F_solo == [dir |-> "pics", parts |-> <<"solo", "v2", "png">>]
F_gone == [dir |-> "tmp", parts |-> <<"gone", "jpg">>]

\* The image files of the data directory, and every path a caller may pass on the
\* command line or to process_face_swap.
DataImages == {F_duo, F_wall, F_junk}
AllPaths == DataImages \cup {F_solo, F_gone}

\* os.path.exists(path)
Exists(p) == p \in DataImages \cup {F_solo}

\* cv2.imread(path) is None: the file is missing or does not decode.
Decodes(p) == p \in {F_duo, F_wall, F_solo}

\* What the detection network finds, as bounding boxes <<x1, y1, x2, y2>>, in the
\* order the network reports them: three faces in duo.jpg (the leftmost is
\* neither the first nor the last reported, nor the largest), one in solo.v2.png,
\* none in wall.v2.png.
RawFaces(p) ==
  IF p = F_duo THEN << <<60, 10, 120, 90>>, <<5, 20, 45, 70>>, <<50, 30, 58, 40>> >>
  ELSE IF p = F_solo THEN << <<30, 30, 70, 80>> >>
  ELSE <<>>

RECURSIVE InsertByX1(_, _)
InsertByX1(s, f) ==
  IF s = <<>> THEN <<f>>
  ELSE IF f[1] < Head(s)[1] THEN <<f>> \o s
  ELSE <<Head(s)>> \o InsertByX1(Tail(s), f)

RECURSIVE SortedByX1(_)
SortedByX1(s) ==
  IF s = <<>> THEN <<>>
  ELSE InsertByX1(SortedByX1(SubSeq(s, 1, Len(s) - 1)), s[Len(s)])

\* Mutant of detect_faces: the detections are returned in the network's order.
detect_faces_Unsorted(p, decoded, fails) ==
  IF ~decoded \/ fails THEN <<>> ELSE RawFaces(p)

\* (face.bbox[2] - face.bbox[0]) * (face.bbox[3] - face.bbox[1])
Area(f) == (f[3] - f[1]) * (f[4] - f[2])

\* Mutant of Beats: a later face of equal area replaces the one held.
Beats_OrTies(f, best) == Area(f) >= Area(best)

\* Python's max keeps the element it holds unless a later one has a greater key.
Beats(f, best) == Area(f) > Area(best)

\* max(faces, key=area), scanning rest with best in hand.
RECURSIVE MaxByArea(_, _)
MaxByArea(best, rest) ==
  IF rest = <<>> THEN best
  ELSE MaxByArea(IF Beats(Head(rest), best) THEN Head(rest) ELSE best, Tail(rest))

\* FaceDetector.get_largest_face: None (here <<>>) for no faces, else <<the face>>.
get_largest_face(faces) ==
  IF faces = <<>> THEN <<>> ELSE <<MaxByArea(Head(faces), Tail(faces))>>

\* The bounding boxes of the faces a direct caller passes: two of area 12, one of
\* area 4, one of area 30.
FaceBoxes == {<<0, 0, 4, 3>>, <<10, 10, 13, 14>>, <<5, 5, 7, 7>>, <<20, 0, 25, 6>>}

\* The face lists a direct caller passes.
FaceLists == UNION {[1..n -> FaceBoxes] : n \in 0..MaxFaces}

Max(a, b) == IF a >= b THEN a ELSE b
Min(a, b) == IF a <= b THEN a ELSE b

\* ImageUtils.resize_image on an image of the given height and width: the scale is
\* 1.0, or min(max_size / height, max_size / width) = max_size / max(height, width)
\* when a side exceeds max_size; the new sides are int(side * scale), taken here
\* in exact arithmetic; cv2.resize raises for a side of 0. The result is
\* <<new_height, new_width>>, or <<>> for the exception.
resize_image(height, width, max_size) ==
  LET shrink == height > max_size \/ width > max_size
      num == IF shrink THEN max_size ELSE 1
      den == IF shrink THEN Max(height, width) ELSE 1
      new_width == (width * num) \div den
      new_height == (height * num) \div den
  IN IF new_width = 0 \/ new_height = 0 THEN <<>> ELSE <<new_height, new_width>>

\* Python's int() of the fraction n / d (d > 0): the fraction part is dropped, so
\* the value moves toward zero.
PyInt(n, d) == IF n >= 0 THEN n \div d ELSE 0 - ((0 - n) \div d)

\* expand_ratio in halves: 1.0, 1.5 (the default) and 2.0.
DefaultRatio == 3
ExpandRatios == {2, DefaultRatio, 4}

\* One axis of crop_face, for the box side lo..hi, the image side limit and the
\* ratio in halves: the centre is (lo + hi) // 2, the size (hi - lo) * ratio, and
\* the ends int(centre - size / 2), int(centre + size / 2), in quarters exactly,
\* clamped below by 0 and above by the image side.
CropAxis(lo, hi, limit, ratio) ==
  LET center == (lo + hi) \div 2
      size4 == (hi - lo) * ratio * 2
  IN <<Max(0, PyInt(4 * center - size4 \div 2, 4)),
       Min(limit, PyInt(4 * center + size4 \div 2, 4))>>

\* FaceDetector.crop_face: the rectangle <<x1, y1, x2, y2>> it slices out of an
\* image of h rows and w columns for the box bbox = <<x1, y1, x2, y2>>.
crop_face(h, w, bbox, expand_ratio) ==
  LET x == CropAxis(bbox[1], bbox[3], w, expand_ratio)
      y == CropAxis(bbox[2], bbox[4], h, expand_ratio)
  IN <<x[1], y[1], x[2], y[2]>>

\* cv2.cvtColor with COLOR_BGR2RGB or COLOR_RGB2BGR: the first and third channel
\* of every pixel change places.
SwapRB(data) == [i \in 1..Len(data) |-> <<data[i][3], data[i][2], data[i][1]>>]

\* ImageUtils.convert_to_pil: BGR to RGB, then Image.fromarray (size is width, height).
convert_to_pil(cv_image) ==
  [mode |-> "RGB", size |-> <<cv_image.shape[2], cv_image.shape[1]>>,
   data |-> SwapRB(cv_image.data)]

\* Mutant of convert_to_cv: the channels are left in PIL's order.
convert_to_cv_NoSwap(pil_image) ==
  [shape |-> <<pil_image.size[2], pil_image.size[1], 3>>, data |-> pil_image.data]

\* ImageUtils.convert_to_cv: np.array (shape is height, width, 3), then RGB to BGR.
convert_to_cv(pil_image) ==
  [shape |-> <<pil_image.size[2], pil_image.size[1], 3>>, data |-> SwapRB(pil_image.data)]

\* The 3-channel 8-bit arrays a direct caller passes: the pixels row by row, of
\* one pixel, of a row of two and of a column of two.
ChannelValues == {0, 7, 255}
Pixels == ChannelValues \X ChannelValues \X ChannelValues
CvImages ==
  {[shape |-> sh, data |-> d] :
     sh \in {<<1, 1, 3>>}, d \in [1..1 -> Pixels]}
  \cup {[shape |-> sh, data |-> d] :
     sh \in {<<1, 2, 3>>, <<2, 1, 3>>}, d \in [1..2 -> Pixels]}

\* FaceDetector.detect_faces: [] for no image or a failing detector, otherwise
\* the detections sorted by x1.
detect_faces(p, decoded, fails) ==
  IF ~decoded \/ fails THEN <<>> ELSE SortedByX1(RawFaces(p))

\* os.path.splitext(os.path.basename(path))[0], as the parts of the stem.
Stem(p) ==
  LET n == Len(p.parts)
      lead == IF n > 0 /\ p.parts[1] = "" THEN 1 ELSE 0
  IN IF n - lead > 1 THEN SubSeq(p.parts, 1, n - 1) ELSE p.parts

\* Python's list[i]: negative indexes count from the end, IndexError outside.
PyIndex(s, i) ==
  IF i >= 0 /\ i < Len(s) THEN s[i + 1]
  ELSE IF i < 0 /\ i >= 0 - Len(s) THEN s[Len(s) + i + 1]
  ELSE "IndexError"

Tiers == <<"BASICO", "HD", "ULTRA_HD">>

\* ["BASICO", "HD", "ULTRA_HD"][quality_level - 1]
quality_suffix(q) == PyIndex(Tiers, q - 1)

\* Mutant of StagesFor: level 3 adds the HDR call only.
StagesFor_HdrOnly(q) ==
  (IF q >= 1 THEN <<"basic">> ELSE <<>>)
  \o (IF q >= 2 THEN <<"skin", "facial_features">> ELSE <<>>)
  \o (IF q >= 3 THEN <<"hdr">> ELSE <<>>)

\* The enhancement calls process_face_swap makes for a quality level, in order.
StagesFor(q) ==
  (IF q >= 1 THEN <<"basic">> ELSE <<>>)
  \o (IF q >= 2 THEN <<"skin", "facial_features">> ELSE <<>>)
  \o (IF q >= 3 THEN <<"color_correction", "hdr">> ELSE <<>>)

\* A value a call hands back: nothing yet, None, a result path, or an exception.
Pending == [tag |-> "pending", tier |-> "", target |-> <<>>, source |-> <<>>]
NoneVal == [tag |-> "None", tier |-> "", target |-> <<>>, source |-> <<>>]
Raised == [tag |-> "raised", tier |-> "", target |-> <<>>, source |-> <<>>]

\* Mutant of result_path: the two names change places in the file name.
result_path_NamesSwapped(q, src, tgt) ==
  [tag |-> "path", tier |-> quality_suffix(q), target |-> Stem(src), source |-> Stem(tgt)]

\* os.path.join(output_dir, f"{quality_suffix}_{target_name}_con_rostro_de_{source_name}.png")
result_path(q, src, tgt) ==
  [tag |-> "path", tier |-> quality_suffix(q), target |-> Stem(tgt), source |-> Stem(src)]

\* An image is where its pixels come from ("target": the decoded target file,
\* "swapped": the swap model's output, "partial": a buffer the swap model wrote into
\* without finishing) and the filters that changed them since, in order.
NoImg == [base |-> "none", stages |-> <<>>]
TargetImg == [base |-> "target", stages |-> <<>>]
SwappedImg == [base |-> "swapped", stages |-> <<>>]
Scribbled(img) == [img EXCEPT !.base = "partial"]

\* A new array holding img's pixels after filter s.
Edit(img, s) == [img EXCEPT !.stages = Append(@, s)]

\* What a call does with an array it is given: the array it returns, and the
\* pixels the caller's array holds afterwards.
Effect(ret, arg) == [ret |-> ret, arg |-> arg]

\* What face_cascade.detectMultiScale can report: a number of regions.
Regions == 0..MaxRegions

\* The regions the cascade reports in an image made from the target file p: it
\* finds the faces of duo.jpg and misses the one of solo.v2.png.
CascadeRegions(p) == IF p = F_duo THEN MaxRegions ELSE 0

\* Mutant of NoRegions: the check for an empty detection is missing.
NoRegions_Never(regions) == FALSE

\* `if len(faces) == 0`
NoRegions(regions) == regions = 0

\* ImageEnhancer.enhance_basic: PIL sharpness, contrast and colour on a new array.
enhance_basic(image) == Effect(Edit(image, "basic"), image)

\* ImageEnhancer.enhance_skin: `return image` without regions; otherwise the
\* regions of image.copy() are filtered.
enhance_skin(image, regions) ==
  IF NoRegions(regions) THEN Effect(image, image)
  ELSE Effect(Edit(image, "skin"), image)

\* ImageEnhancer.enhance_facial_features: `return image` without regions;
\* otherwise the saturation of a converted copy is raised and converted back.
enhance_facial_features(image, regions) ==
  IF NoRegions(regions) THEN Effect(image, image)
  ELSE Effect(Edit(image, "facial_features"), image)

\* ImageEnhancer.enhance_color_correction: the channels are split, scaled and merged.
enhance_color_correction(result_img) == Effect(Edit(result_img, "color_correction"), result_img)

\* ImageEnhancer.enhance_hdr_effect: CLAHE and saturation on converted copies.
enhance_hdr_effect(image) == Effect(Edit(image, "hdr"), image)

\* The array one enhancement call returns; r is what the cascade reports inside
\* enhance_skin and enhance_facial_features.
ApplyStage(s, img, r) ==
  CASE s = "basic" -> enhance_basic(img).ret
    [] s = "skin" -> enhance_skin(img, r).ret
    [] s = "facial_features" -> enhance_facial_features(img, r).ret
    [] s = "color_correction" -> enhance_color_correction(img).ret
    [] s = "hdr" -> enhance_hdr_effect(img).ret

\* The enhancement calls ImageEnhancer.apply_all_enhancements makes for a level.
apply_all_calls(level) ==
  <<"basic">>
  \o (IF level >= 2 THEN <<"skin", "facial_features">> ELSE <<>>)
  \o (IF level >= 3 THEN <<"hdr">> ELSE <<>>)

\* result_img after the calls ss, each made on the previous one's result.
RECURSIVE RunStages(_, _, _)
RunStages(ss, img, r) ==
  IF ss = <<>> THEN img
  ELSE RunStages(Tail(ss), ApplyStage(Head(ss), img, r), r)

\* ImageEnhancer.apply_all_enhancements: the calls are chained on image.copy().
apply_all_enhancements(image, level, r) ==
  Effect(RunStages(apply_all_calls(level), image, r), image)

\* One invocation of FaceSwapApp.process_face_swap.
IdlePl ==
  [pc |-> "idle", src |-> NoPath, tgt |-> NoPath, q |-> 0,
   dec |-> "none",     \* the decode check: "none" (not reached), "ok", "failed"
   det |-> "none",     \* the detection check: "none", "ok", "empty"
   sface |-> <<>>,     \* source_faces[0]
   tface |-> <<>>,     \* target_faces[0]
   swap |-> "none",    \* the swap engine's call: "none" (not called), "ok", "failed"
   timg |-> NoImg,     \* target_img
   img |-> NoImg,      \* result_img
   calls |-> <<>>,     \* the enhancement calls made, in order
   exc |-> FALSE,      \* the except clause ran
   wrote |-> FALSE,    \* cv2.imwrite wrote the output file
   ret |-> Pending]

QRange == (1 - QExtra)..(3 + QExtra)

NoArgs == [source |-> NoPath, target |-> NoPath, quality |-> 2, output |-> FALSE]

\* ------------------------------------------------------------- state
VARIABLES
  entry,            \* how the program was started: "gui" (main.py), "cli" (cli.py),
                    \* "api" (a caller of FaceSwapApp), "lib" (a caller of one component)
  args,             \* the command line (cli) or the direct caller's arguments (api)
  pc,               \* where the main thread is
  exit_code,        \* the process's exit status, -1 while it runs
  model_file,       \* the file at model_path: "absent", "partial" or "complete"
  model_at_start,   \* model_file when the program started
  fetches,          \* HTTP connections verify_model has opened
  mkdirs,           \* os.makedirs calls verify_model has made
  vm_ret,           \* what verify_model returned: "none" before it ran, "True", "False", "raised"
  vm_outcome,       \* how verify_model's download went ("none": it did not download)
  pl,               \* the process_face_swap invocation of each thread
  output,           \* the output directory: result path -> image written there
  copied,           \* cli: shutil.copy2 to --output succeeded
  processing,       \* AppWindow.processing, the busy flag
  btn_enabled,      \* process_btn is not disabled
  progress,         \* the progress bar's value
  source_img_path,  \* AppWindow.source_img_path
  target_img_path,  \* AppWindow.target_img_path
  quality_level,    \* the Tk IntVar behind the radio buttons
  result_img_path,  \* AppWindow.result_img_path
  afterq,           \* callbacks scheduled with root.after(0, ...), in order
  wk,               \* each worker thread: its position and its local quality
  nthreads,         \* worker threads started so far
  events,           \* user events handled so far
  notice,           \* the last message box shown
  call              \* lib: the call of a component made directly, and what it did

startup_vars == <<entry, args, pc, exit_code, model_at_start, copied>>
model_vars == <<model_file, fetches, mkdirs, vm_ret, vm_outcome>>
gui_vars ==
  <<processing, btn_enabled, progress, source_img_path, target_img_path, quality_level,
    result_img_path, afterq, wk, nthreads, events, notice>>
vars == <<startup_vars, model_vars, pl, output, gui_vars, call>>

\* A worker thread: where it is, its local `quality`, the Tk calls it has made
\* itself, other than root.after, the callbacks it has posted with root.after, and
\* how its run went ("none" while that is open, "path", "None" or "raised").
NoSelection == [source |-> NoPath, target |-> NoPath, quality |-> 0]
IdleWk ==
  [pc |-> "idle", quality |-> 0, tk_direct |-> {}, posted |-> <<>>, outcome |-> "none",
   accepted |-> NoSelection]

\* A direct call of a component: the function, its arguments (the image, the
\* level, what the cascade reports; `input` for arguments that are no image), the
\* calls it made, the array it returned and the pixels of the argument array
\* afterwards (`out` for a result that is no image).
NoCall ==
  [fn |-> "none", image |-> NoImg, level |-> 0, regions |-> 0, calls |-> <<>>,
   ret |-> NoImg, after |-> NoImg, input |-> <<>>, out |-> <<>>, fails |-> 0]

\* The images a direct caller passes.
LibImages == {TargetImg, SwappedImg, Edit(SwappedImg, "basic")}

\* The state as the program starts: the arguments, and whether the model file is there.
Init ==
  /\ entry \in {"gui", "cli", "api", "lib"}
  /\ args \in
       IF entry \in {"gui", "lib"} THEN {NoArgs}
       ELSE [source : AllPaths, target : AllPaths,
             quality : IF entry = "cli" THEN 1..3 ELSE QRange,
             output : IF entry = "cli" THEN BOOLEAN ELSE {FALSE}]
  /\ pc = "start"
  /\ exit_code = -1
  /\ model_file \in {"absent", "complete"}
  /\ model_at_start = model_file
  /\ fetches = 0
  /\ mkdirs = 0
  /\ vm_ret = "none"
  /\ vm_outcome = "none"
  /\ pl = [t \in Threads |-> IdlePl]
  /\ output = [x \in {} |-> NoImg]
  /\ copied = FALSE
  /\ processing = FALSE
  /\ btn_enabled = TRUE
  /\ progress = 0
  /\ source_img_path = NoPath
  /\ target_img_path = NoPath
  /\ quality_level = 2
  /\ result_img_path = NoneVal
  /\ afterq = <<>>
  /\ wk = [w \in Workers |-> IdleWk]
  /\ nthreads = 0
  /\ events = 0
  /\ notice = "none"
  /\ call = NoCall

\* ----------------------------------------------------------- start-up
Exit(code) == pc' = "exit" /\ exit_code' = code

\* Mutant of InputMissing: only the source path is looked at.
InputMissing_SourceOnly(a) == ~Exists(a.source)

\* cli.main's two checks: `if not os.path.exists(args.source)` and
\* `if not os.path.exists(args.target)`, each followed by `return 1`.
InputMissing(a) == ~Exists(a.source) \/ ~Exists(a.target)

\* cli.main up to the try block: a missing input ends it with 1; then the three
\* directories are created. main.py's main creates the directories only. A direct
\* caller ("api") does neither.
Setup ==
  /\ pc = "start"
  /\ entry # "lib"
  /\ IF entry = "cli" /\ InputMissing(args)
     THEN Exit(1)
     ELSE pc' = "construct" /\ UNCHANGED exit_code
  /\ UNCHANGED <<call, entry, args, model_at_start, copied, model_vars, pl, output, gui_vars>>

\* What ends a start-up whose constructor raised: main.py's handler calls
\* sys.exit(1), cli.main's handler returns 1, a direct caller sees the exception.
ConstructorRaised == Exit(1)

\* FaceSwapApp.__init__: initialize_components raises FileNotFoundError when the
\* model file is absent; loading the detector, the swap model or creating the Tk
\* root may raise too.
Construct ==
  /\ pc = "construct"
  /\ \E loads \in BOOLEAN :
       IF model_file = "absent" \/ ~loads
       THEN ConstructorRaised
       ELSE pc' = "constructed" /\ UNCHANGED exit_code
  /\ UNCHANGED <<call, entry, args, model_at_start, copied, model_vars, pl, output, gui_vars>>

\* The file system: the model file is deleted after the constructor saw it.
RemoveModelFile ==
  /\ pc = "constructed"
  /\ model_file # "absent"
  /\ model_file' = "absent"
  /\ UNCHANGED <<call, startup_vars, fetches, mkdirs, vm_ret, vm_outcome, pl, output, gui_vars>>

\* How a download attempt can go, by the first call that fails.
DownloadOutcomes == {"ok", "makedirs_failed", "urlopen_failed", "open_failed",
                     "read_failed", "write_failed"}

\* The file at model_path after a download attempt: open(model_path, 'wb') creates
\* it before response.read() and f.write() run.
FileAfterDownload(o) ==
  CASE o = "ok" -> "complete"
    [] o \in {"read_failed", "write_failed"} -> "partial"
    [] OTHER -> "absent"

\* Mutant of DownloadReturn: the except clause does not return False.
DownloadReturn_Unconditional(o) == "True"

\* What verify_model's download branch returns: True at the end of the try block,
\* False from the except clause.
DownloadReturn(o) == IF o = "ok" THEN "True" ELSE "False"

\* verify_model's download: os.makedirs, one urlopen of the fixed URL, the file
\* opened for writing, the response read and written.
Download ==
  \E o \in DownloadOutcomes :
    /\ vm_outcome' = o
    /\ mkdirs' = mkdirs + 1
    /\ fetches' = IF o = "makedirs_failed" THEN fetches ELSE fetches + 1
    /\ model_file' = FileAfterDownload(o)
    /\ vm_ret' = DownloadReturn(o)

\* Mutant of verify_model: the existence check is missing.
verify_model_AlwaysFetches == Download

\* FaceSwapApp.verify_model: True at once when the file exists, else the download.
verify_model ==
  IF model_file # "absent"
  THEN /\ vm_ret' = "True"
       /\ UNCHANGED <<model_file, fetches, mkdirs, vm_outcome>>
  ELSE Download

\* FaceSwapApp.run's and cli.main's call of verify_model.
VerifyModel ==
  /\ pc = "constructed"
  /\ entry \in {"gui", "cli"}
  /\ verify_model
  /\ pc' = "verified"
  /\ UNCHANGED <<call, entry, args, exit_code, model_at_start, copied, pl, output, gui_vars>>

\* Mutant of ProceedsAfterVerify: verify_model's result is not looked at.
ProceedsAfterVerify_Always(r) == TRUE

\* Whether the caller goes on after verify_model: `if not self.verify_model(): return`.
ProceedsAfterVerify(r) == r = "True"

\* A call of process_face_swap(source, target, quality) on thread t.
StartPl(t, s, g, q) == [pl EXCEPT ![t] = [IdlePl EXCEPT !.pc = "load", !.src = s, !.tgt = g, !.q = q]]

\* load_available_images as the window is set up: nothing is selected when the data
\* directory holds no image; otherwise the first listed image becomes the source
\* and the second (the first, if there is only one) the target. The listings
\* taken: none, [duo], [duo, wall, ..] and [junk, duo, ..].
AutoSelections ==
  {<<NoPath, NoPath>>, <<F_duo, F_duo>>, <<F_duo, F_wall>>, <<F_junk, F_duo>>}

\* After verify_model: FaceSwapApp.run returns (main.py then ends with status 0) or
\* enters the Tk main loop; cli.main returns 1 or calls process_face_swap.
AfterVerify ==
  /\ pc = "verified"
  /\ IF ~ProceedsAfterVerify(vm_ret)
     THEN Exit(IF entry = "cli" THEN 1 ELSE 0) /\ UNCHANGED pl
     ELSE IF entry = "gui"
     THEN pc' = "mainloop" /\ UNCHANGED <<exit_code, pl>>
     ELSE /\ pc' = "processing"
          /\ pl' = StartPl(Main, args.source, args.target, args.quality)
          /\ UNCHANGED exit_code
  /\ IF entry = "gui" /\ ProceedsAfterVerify(vm_ret)
     THEN \E sel \in AutoSelections :
            /\ source_img_path' = sel[1]
            /\ target_img_path' = sel[2]
            /\ notice' = IF sel[1] = NoPath THEN "no_images" ELSE notice
     ELSE UNCHANGED <<source_img_path, target_img_path, notice>>
  /\ UNCHANGED <<call, entry, args, model_at_start, copied, model_vars, output, processing,
                 btn_enabled, progress, quality_level, result_img_path, afterq, wk,
                 nthreads, events>>

\* A direct caller calls process_face_swap on the constructed application.
ApiCall ==
  /\ pc = "constructed"
  /\ entry = "api"
  /\ pc' = "processing"
  /\ pl' = StartPl(Main, args.source, args.target, args.quality)
  /\ UNCHANGED <<call, entry, args, exit_code, model_at_start, copied, model_vars, output, gui_vars>>

\* ------------------------------------------- FaceSwapApp.process_face_swap
\* Mutant of Abort: the error is logged but the return is missing.
Abort_LogOnly(p) == [p EXCEPT !.pc = IF p.pc = "load" THEN "detect" ELSE "swap"]

\* `return None` at one of the two checks.
Abort(p) == [p EXCEPT !.pc = "done", !.ret = NoneVal]

\* Mutant of OnException: the except clause logs and re-raises.
OnException_Propagates(p) == [p EXCEPT !.pc = "done", !.ret = Raised, !.exc = TRUE]

\* The except clause: the error is logged and None returned.
OnException(p) == [p EXCEPT !.pc = "done", !.ret = NoneVal, !.exc = TRUE]

\* `if source_img is None or target_img is None`
LoadFailed(sdec, tdec) == ~sdec \/ ~tdec

\* `if not source_faces or not target_faces`
NoFaces(sf, tf) == sf = <<>> \/ tf = <<>>

\* cv2.imread of both paths and the check of the two images.
Load(t) ==
  /\ pl[t].pc = "load"
  /\ pl' = [pl EXCEPT ![t] =
       IF LoadFailed(Decodes(pl[t].src), Decodes(pl[t].tgt))
       THEN Abort([pl[t] EXCEPT !.dec = "failed"])
       ELSE [pl[t] EXCEPT !.pc = "detect", !.dec = "ok", !.timg = TargetImg]]
  /\ UNCHANGED <<call, startup_vars, model_vars, output, gui_vars>>

\* detect_faces on both images and the check of the two lists.
Detect(t) ==
  /\ pl[t].pc = "detect"
  /\ \E sfails, tfails \in BOOLEAN :
       LET sf == detect_faces(pl[t].src, Decodes(pl[t].src), sfails)
           tf == detect_faces(pl[t].tgt, Decodes(pl[t].tgt), tfails)
       IN pl' = [pl EXCEPT ![t] =
            IF NoFaces(sf, tf)
            THEN Abort([pl[t] EXCEPT !.det = "empty"])
            ELSE [pl[t] EXCEPT !.pc = "swap", !.det = "ok",
                               !.sface = PyIndex(sf, 0), !.tface = PyIndex(tf, 0)]]
  /\ UNCHANGED <<call, startup_vars, model_vars, output, gui_vars>>

\* Mutant of swap_face: the swap model is handed target_img itself, not a copy.
swap_face_NoCopy(target_img, engine_ok, scribbles) ==
  LET arg == IF scribbles THEN Scribbled(target_img) ELSE target_img
  IN IF engine_ok THEN Effect(SwappedImg, arg) ELSE Effect(arg, arg)

\* FaceSwapper.swap_face: swapper.get is called on target_img.copy(); its result is
\* returned, or target_img.copy() when it raises. Whether the swap model writes
\* into the array it is given (scribbles) is the library's business.
swap_face(target_img, engine_ok, scribbles) ==
  IF engine_ok THEN Effect(SwappedImg, target_img)
  ELSE Effect(target_img, target_img)

\* The loop of swap_multiple_faces from its k-th face on: swapper.get is called on
\* the result so far and the face, and its output (a new array with that face
\* replaced) is the next result; the call numbered fail_at raises.
RECURSIVE SwapEach(_, _, _, _)
SwapEach(result, target_faces, k, fail_at) ==
  IF k > Len(target_faces)
  THEN [calls |-> <<>>, result |-> result, raised |-> FALSE]
  ELSE LET c == [image |-> result, face |-> target_faces[k]]
       IN IF fail_at = k
          THEN [calls |-> <<c>>, result |-> result, raised |-> TRUE]
          ELSE LET rest == SwapEach(Edit(result, target_faces[k]), target_faces,
                                    k + 1, fail_at)
               IN [rest EXCEPT !.calls = <<c>> \o @]

\* Mutant of swap_multiple_faces: the loop starts on target_img itself, not a copy.
swap_multiple_faces_NoCopy(target_img, target_faces, fail_at, scribbles) ==
  LET run == SwapEach(target_img, target_faces, 1, fail_at)
      arg == IF scribbles /\ run.calls # <<>> THEN Scribbled(target_img) ELSE target_img
  IN [calls |-> run.calls, ret |-> IF run.raised THEN arg ELSE run.result, arg |-> arg]

\* FaceSwapper.swap_multiple_faces: the loop starts on target_img.copy(); its last
\* result is returned, or target_img.copy() when a call raises. Whether the swap
\* model writes into the array it is given (scribbles) is the library's business.
swap_multiple_faces(target_img, target_faces, fail_at, scribbles) ==
  LET run == SwapEach(target_img, target_faces, 1, fail_at)
  IN [calls |-> run.calls, ret |-> IF run.raised THEN target_img ELSE run.result,
      arg |-> target_img]

\* The call self.face_swapper.swap_face(target_img, target_faces[0], source_img,
\* source_faces[0]).
Swap(t) ==
  /\ pl[t].pc = "swap"
  /\ \E engine_ok, scribbles \in BOOLEAN :
       LET e == swap_face(pl[t].timg, engine_ok, scribbles)
       IN pl' = [pl EXCEPT ![t] =
            [pl[t] EXCEPT !.pc = "enhance", !.img = e.ret, !.timg = e.arg,
                          !.swap = IF engine_ok THEN "ok" ELSE "failed"]]
  /\ UNCHANGED <<call, startup_vars, model_vars, output, gui_vars>>

\* The enhancement calls of the quality level, in order, each on the result of the
\* one before; any of them may raise (after k calls have returned), which ends the
\* invocation in the except clause.
Enhance(t) ==
  /\ pl[t].pc = "enhance"
  /\ \E k \in 0..Len(StagesFor(pl[t].q)) :
       LET made == SubSeq(StagesFor(pl[t].q), 1, k)
           done == [pl[t] EXCEPT !.calls = made,
                      !.img = RunStages(made, pl[t].img, CascadeRegions(pl[t].tgt))]
       IN pl' = [pl EXCEPT ![t] =
            IF k < Len(StagesFor(pl[t].q)) THEN OnException(done)
            ELSE [done EXCEPT !.pc = "save"]]
  /\ UNCHANGED <<call, startup_vars, model_vars, output, gui_vars>>

\* What cv2.imwrite can do: write the file and return True, return False without
\* writing (a missing or unwritable directory), or raise.
WriteOutcomes == {"written", "false", "raised"}

\* What process_face_swap does with cv2.imwrite's outcome: its return value is
\* not looked at, an exception reaches the except clause.
AfterWrite(p, path, o) ==
  IF o = "raised" THEN OnException(p)
  ELSE [p EXCEPT !.pc = "done", !.ret = path, !.wrote = (o = "written")]

\* The file name, cv2.imwrite and the return.
Save(t) ==
  /\ pl[t].pc = "save"
  /\ IF quality_suffix(pl[t].q) = "IndexError"
     THEN /\ pl' = [pl EXCEPT ![t] = OnException(pl[t])]
          /\ UNCHANGED output
     ELSE \E o \in WriteOutcomes :
            LET path == result_path(pl[t].q, pl[t].src, pl[t].tgt)
            IN /\ pl' = [pl EXCEPT ![t] = AfterWrite(pl[t], path, o)]
               /\ output' =
                    IF o = "written"
                    THEN [x \in DOMAIN output \cup {path} |->
                            IF x = path THEN pl[t].img ELSE output[x]]
                    ELSE output
  /\ UNCHANGED <<call, startup_vars, model_vars, gui_vars>>

\* ------------------------------------------------------------ cli.main
\* cli.main after process_face_swap: 1 without a result; with --output the result
\* is copied, and a failing copy (the result file is missing, the destination
\* cannot be written) gives 1; otherwise 0. A direct caller just ends.
Finish ==
  /\ pc = "processing"
  /\ pl[Main].pc = "done"
  /\ IF pl[Main].ret.tag = "raised" THEN Exit(1) /\ UNCHANGED copied
     ELSE IF entry = "api" THEN Exit(0) /\ UNCHANGED copied
     ELSE IF pl[Main].ret.tag = "None" THEN Exit(1) /\ UNCHANGED copied
     ELSE IF args.output
     THEN \E copy_ok \in {ok \in BOOLEAN : ok => pl[Main].ret \in DOMAIN output} :
            /\ copied' = copy_ok
            /\ Exit(IF copy_ok THEN 0 ELSE 1)
     ELSE Exit(0) /\ UNCHANGED copied
  /\ UNCHANGED <<call, entry, args, model_at_start, model_vars, pl, output, gui_vars>>

\* ------------------------------------------------- direct component calls
\* A direct caller has not made its call yet.
AtLibStart == pc = "start" /\ entry = "lib"

\* A direct caller's program: one call of a component, and the end.
LibCall(c) ==
  /\ AtLibStart
  /\ call' = c
  /\ Exit(0)
  /\ UNCHANGED <<entry, args, model_at_start, copied, model_vars, pl, output, gui_vars>>

\* enhancer.apply_all_enhancements(image, level)
CallApplyAll ==
  /\ AtLibStart
  /\ \E image \in LibImages, level \in QRange, r \in Regions :
    LET e == apply_all_enhancements(image, level, r)
    IN LibCall([NoCall EXCEPT !.fn = "apply_all_enhancements", !.image = image,
                  !.level = level, !.regions = r, !.calls = apply_all_calls(level),
                  !.ret = e.ret, !.after = e.arg])

\* enhancer.enhance_skin(image)
CallEnhanceSkin ==
  /\ AtLibStart
  /\ \E image \in LibImages, r \in Regions :
    LET e == enhance_skin(image, r)
    IN LibCall([NoCall EXCEPT !.fn = "enhance_skin", !.image = image, !.regions = r,
                  !.calls = <<"skin">>, !.ret = e.ret, !.after = e.arg])

\* enhancer.enhance_facial_features(image)
CallEnhanceFacialFeatures ==
  /\ AtLibStart
  /\ \E image \in LibImages, r \in Regions :
    LET e == enhance_facial_features(image, r)
    IN LibCall([NoCall EXCEPT !.fn = "enhance_facial_features", !.image = image,
                  !.regions = r, !.calls = <<"facial_features">>, !.ret = e.ret,
                  !.after = e.arg])

\* The face lists a direct caller passes to swap_multiple_faces.
SwapFaces == {"face_a", "face_b"}
SwapFaceLists == UNION {[1..n -> SwapFaces] : n \in 0..MaxFaces}

\* swapper.swap_multiple_faces(target_img, target_faces, source_img, source_face)
CallSwapMultipleFaces ==
  /\ AtLibStart
  /\ \E target_img \in LibImages, target_faces \in SwapFaceLists, scribbles \in BOOLEAN :
    \E fail_at \in 0..Len(target_faces) :
      LET e == swap_multiple_faces(target_img, target_faces, fail_at, scribbles)
      IN LibCall([NoCall EXCEPT !.fn = "swap_multiple_faces", !.image = target_img,
                    !.input = target_faces, !.fails = fail_at, !.calls = e.calls,
                    !.ret = e.ret, !.after = e.arg])

\* The boxes a direct caller's face carries: every side lo..hi on the x axis, from
\* the image's edge to just past it, and a few sides on the y axis.
CropSides == {<<lo, hi>> \in (0..MaxDim + 1) \X (0..MaxDim + 1) : lo <= hi}
CropSidesY == {<<0, 2>>, <<1, 4>>, <<2, 3>>}

\* detector.crop_face(image, face, expand_ratio)
CallCropFace ==
  /\ AtLibStart
  /\ \E w \in 1..MaxDim, sx \in CropSides, sy \in CropSidesY, r \in ExpandRatios :
    LET bbox == <<sx[1], sy[1], sx[2], sy[2]>>
    IN LibCall([NoCall EXCEPT !.fn = "crop_face", !.input = <<MaxDim, w, bbox, r>>,
                  !.out = crop_face(MaxDim, w, bbox, r)])

\* detector.get_largest_face(faces)
CallGetLargestFace ==
  /\ AtLibStart
  /\ \E faces \in FaceLists :
    LibCall([NoCall EXCEPT !.fn = "get_largest_face", !.input = faces,
               !.out = get_largest_face(faces)])

\* utils.resize_image(image, max_size)
CallResizeImage ==
  /\ AtLibStart
  /\ \E height, width, max_size \in 1..MaxDim :
    LibCall([NoCall EXCEPT !.fn = "resize_image", !.input = <<height, width, max_size>>,
               !.out = resize_image(height, width, max_size)])

\* utils.convert_to_cv(utils.convert_to_pil(img)), as the unit test calls them.
CallConvertRoundTrip ==
  /\ AtLibStart
  /\ \E img \in CvImages :
    LibCall([NoCall EXCEPT !.fn = "convert_round_trip", !.input = img,
               !.out = convert_to_cv(convert_to_pil(img))])

\* --------------------------------------------------------- AppWindow
\* A callback scheduled with root.after(0, ...).
Cb(kind, value) == [kind |-> kind, value |-> value]

\* update_progress(value, text): the three callbacks that set the bar, the label
\* and the status line, taken as one.
ProgressCb(v) == Cb("progress", v)

gui_select_frame ==
  <<call, startup_vars, model_vars, pl, output, processing, btn_enabled, progress,
    result_img_path, afterq, wk, nthreads, notice>>

\* on_source_selected: the combobox's selection becomes the source path.
OnSourceSelected ==
  /\ pc = "mainloop"
  /\ events < MaxEvents
  /\ \E f \in DataImages : source_img_path' = f
  /\ events' = events + 1
  /\ UNCHANGED <<gui_select_frame, target_img_path, quality_level>>

\* on_target_selected
OnTargetSelected ==
  /\ pc = "mainloop"
  /\ events < MaxEvents
  /\ \E f \in DataImages : target_img_path' = f
  /\ events' = events + 1
  /\ UNCHANGED <<gui_select_frame, source_img_path, quality_level>>

\* A quality radio button sets the IntVar.
OnQualitySelected ==
  /\ pc = "mainloop"
  /\ events < MaxEvents
  /\ \E q \in 1..3 : quality_level' = q
  /\ events' = events + 1
  /\ UNCHANGED <<gui_select_frame, source_img_path, target_img_path>>

\* Mutant of Busy: the busy check is missing.
Busy_Never == FALSE

\* `if self.processing`
Busy == processing

\* Mutant of RejectBusy: the busy check sits below the reset of the progress bar.
RejectBusy_ResetsBar ==
  /\ notice' = "busy"
  /\ progress' = 0
  /\ UNCHANGED <<processing, btn_enabled, afterq, wk, nthreads>>

\* The busy branch of on_process: a notice, and return.
RejectBusy ==
  /\ notice' = "busy"
  /\ UNCHANGED <<processing, btn_enabled, progress, afterq, wk, nthreads>>

\* on_process: rejected while busy or while an image is not selected; otherwise the
\* flag is set, the button disabled, the bar reset and a worker thread started.
\* The handler is taken as callable in every state of the main loop, whatever the
\* state of the button that is bound to it.
OnProcess ==
  /\ pc = "mainloop"
  /\ events < MaxEvents
  /\ events' = events + 1
  /\ IF Busy THEN RejectBusy
     ELSE IF source_img_path = NoPath \/ target_img_path = NoPath
     THEN /\ notice' = "missing"
          /\ UNCHANGED <<processing, btn_enabled, progress, afterq, wk, nthreads>>
     ELSE /\ nthreads < MaxRuns
          /\ processing' = TRUE
          /\ btn_enabled' = FALSE
          /\ progress' = 0
          /\ nthreads' = nthreads + 1
          /\ wk' = [wk EXCEPT ![nthreads + 1].pc = "begin",
                               ![nthreads + 1].accepted =
                                 [source |-> source_img_path, target |-> target_img_path,
                                  quality |-> quality_level]]
          /\ UNCHANGED <<afterq, notice>>
  /\ UNCHANGED <<call, startup_vars, model_vars, pl, output, source_img_path, target_img_path,
                 quality_level, result_img_path>>

worker_frame ==
  <<call, startup_vars, model_vars, output, btn_enabled, progress, source_img_path,
    target_img_path, quality_level, nthreads, events, notice>>

\* Mutant of FailureCbs: the bar is not reset.
FailureCbs_NoReset == <<Cb("error", 0)>>

\* What the worker posts when a run fails: the error dialog, then progress 0.
FailureCbs == <<Cb("error", 0), ProgressCb(0)>>

\* What the worker posts when a run succeeds.
SuccessCbs == <<ProgressCb(80), Cb("show", 0), ProgressCb(100), Cb("success", 0)>>

\* AppWindow.process_face_swap, first statement: update_progress(10, ...).
WorkerBegin(w) ==
  /\ wk[w].pc = "begin"
  /\ afterq' = Append(afterq, ProgressCb(10))
  /\ wk' = [wk EXCEPT ![w].pc = "quality", ![w].posted = Append(@, ProgressCb(10))]
  /\ UNCHANGED <<worker_frame, pl, processing, result_img_path>>

\* quality = self.quality_level.get(), then update_progress(30, ...). The read of a
\* Tk variable off the UI thread may raise, which takes the except clause.
WorkerQuality(w) ==
  /\ wk[w].pc = "quality"
  /\ \E tk_ok \in BOOLEAN :
       LET tk == wk[w].tk_direct \cup {"quality_level.get"}
       IN IF tk_ok
          THEN /\ wk' = [wk EXCEPT ![w].pc = "call", ![w].quality = quality_level,
                                   ![w].tk_direct = tk,
                                   ![w].posted = Append(@, ProgressCb(30))]
               /\ afterq' = Append(afterq, ProgressCb(30))
          ELSE /\ wk' = [wk EXCEPT ![w].pc = "finally", ![w].tk_direct = tk,
                                   ![w].posted = @ \o FailureCbs,
                                   ![w].outcome = "raised", ![w].accepted = NoSelection]
               /\ afterq' = afterq \o FailureCbs
  /\ UNCHANGED <<worker_frame, pl, processing, result_img_path>>

\* The call self.app.process_face_swap(self.source_img_path, self.target_img_path, quality).
WorkerCall(w) ==
  /\ wk[w].pc = "call"
  /\ pl' = StartPl(w, source_img_path, target_img_path, wk[w].quality)
  /\ wk' = [wk EXCEPT ![w].pc = "running", ![w].accepted = NoSelection]
  /\ UNCHANGED <<worker_frame, processing, result_img_path, afterq>>

\* The call returns: its value is stored in result_img_path and the outcome posted.
\* An exception out of the call takes the except clause instead.
WorkerReturn(w) ==
  /\ wk[w].pc = "running"
  /\ pl[w].pc = "done"
  /\ result_img_path' = IF pl[w].ret.tag = "raised" THEN result_img_path ELSE pl[w].ret
  /\ LET cbs == IF pl[w].ret.tag = "path" THEN SuccessCbs ELSE FailureCbs
     IN /\ afterq' = afterq \o cbs
        /\ wk' = [wk EXCEPT ![w].pc = "finally", ![w].posted = @ \o cbs,
                            ![w].outcome = pl[w].ret.tag]
  /\ pl' = [pl EXCEPT ![w] = [IdlePl EXCEPT !.pc = "returned"]]
  /\ UNCHANGED <<worker_frame, processing>>

\* Mutant of FinallyCbs: the finally clause posts nothing.
FinallyCbs_None == <<>>

\* What the finally clause posts: the button's re-enabling and the "ready" status
\* line (two callbacks, taken as one).
FinallyCbs == <<Cb("enable", 0)>>

\* The finally clause: the flag is cleared and the callbacks are posted.
WorkerFinally(w) ==
  /\ wk[w].pc = "finally"
  /\ processing' = FALSE
  /\ afterq' = afterq \o FinallyCbs
  /\ wk' = [wk EXCEPT ![w].pc = "done", ![w].posted = @ \o FinallyCbs]
  /\ UNCHANGED <<worker_frame, pl, result_img_path>>

\* The Tk main loop runs the oldest scheduled callback.
RunAfter ==
  /\ pc = "mainloop"
  /\ afterq # <<>>
  /\ afterq' = Tail(afterq)
  /\ LET cb == Head(afterq)
     IN /\ progress' = IF cb.kind = "progress" THEN cb.value ELSE progress
        /\ btn_enabled' = IF cb.kind = "enable" THEN TRUE ELSE btn_enabled
        /\ notice' = IF cb.kind \in {"error", "success"} THEN cb.kind ELSE notice
  /\ UNCHANGED <<call, startup_vars, model_vars, pl, output, processing, source_img_path,
                 target_img_path, quality_level, result_img_path, wk, nthreads,
                 events>>

\* ------------------------------------------------------ specification
Next ==
  \/ Setup
  \/ Construct
  \/ RemoveModelFile
  \/ VerifyModel
  \/ AfterVerify
  \/ ApiCall
  \/ Finish
  \/ CallApplyAll
  \/ CallEnhanceSkin
  \/ CallEnhanceFacialFeatures
  \/ CallGetLargestFace
  \/ CallResizeImage
  \/ CallCropFace
  \/ CallSwapMultipleFaces
  \/ CallConvertRoundTrip
  \/ \E t \in Threads : Load(t) \/ Detect(t) \/ Swap(t) \/ Enhance(t) \/ Save(t)
  \/ OnSourceSelected
  \/ OnTargetSelected
  \/ OnQualitySelected
  \/ OnProcess
  \/ RunAfter
  \/ \E w \in Workers :
       WorkerBegin(w) \/ WorkerQuality(w) \/ WorkerCall(w) \/ WorkerReturn(w) \/ WorkerFinally(w)

Spec == Init /\ [][Next]_vars

\* The steps of the thread on_process starts: AppWindow.process_face_swap and the
\* pipeline invocation it makes.
WorkerStep(w) ==
  \/ WorkerBegin(w) \/ WorkerQuality(w) \/ WorkerCall(w)
  \/ Load(w) \/ Detect(w) \/ Swap(w) \/ Enhance(w) \/ Save(w)
  \/ WorkerReturn(w) \/ WorkerFinally(w)

\* The program with its scheduling: a started thread keeps running to its end (the
\* calls it makes return), and root.mainloop() keeps running scheduled callbacks.
LiveSpec ==
  /\ Spec
  /\ \A w \in Workers : WF_vars(WorkerStep(w))
  /\ WF_vars(RunAfter)

\* ------------------------------------------------------------- claims
\* The call of process_face_swap on thread t has started and not yet returned to
\* its caller.
Executing(t) == pl[t].pc \in {"load", "detect", "swap", "enhance", "save", "done"}

\* C1: at no time are two process_face_swap calls started by the GUI executing:
\* at most one worker thread is inside the call.
C1_OnePipelineInFlight == Cardinality({w \in Workers : Executing(w)}) <= 1

\* A second run is inside the call after the first one has returned.
C1_Witness == nthreads = 2 /\ pl[1].pc = "returned" /\ pl[2].pc = "swap"

\* C2: an on_process call made while the busy flag is set shows the busy notice
\* and changes nothing else: no thread is started, the run in flight, the progress
\* bar, the selection, the result path and the scheduled callbacks stay as they are
\* (so nothing is left behind that could start a run later).
C2_BusyRequestOnlyNotifies ==
  [][(OnProcess /\ processing) =>
       /\ notice' = "busy"
       /\ UNCHANGED <<call, startup_vars, model_vars, pl, output, processing, btn_enabled,
                      progress, source_img_path, target_img_path, quality_level,
                      result_img_path, afterq, wk, nthreads>>]_vars

\* A request was rejected while a run was in flight and the bar had moved.
C2_Witness == notice = "busy" /\ processing /\ progress = 30 /\ Executing(1)

\* C3: process_face_swap never hands an exception to its caller: while it runs
\* nothing is returned, and once it is over it has returned a path or None.
C3_NeverRaises ==
  \A t \in Threads :
    /\ pl[t].ret.tag \in {"pending", "None", "path"}
    /\ pl[t].pc = "done" => pl[t].ret.tag \in {"None", "path"}

\* An invocation ended in the except clause because the file name could not be
\* computed (quality_level beyond the list), after all stages had run.
C3_Witness ==
  /\ pl[Main].pc = "done" /\ pl[Main].exc /\ pl[Main].ret = NoneVal
  /\ quality_suffix(pl[Main].q) = "IndexError"
  /\ pl[Main].calls = StagesFor(pl[Main].q)

\* C4: an invocation that found an image undecodable or a face list empty has
\* returned None, without calling the swap engine or an enhancement stage and
\* without writing a file.
C4_FailedInputsAbort ==
  \A t \in Threads :
    (pl[t].dec = "failed" \/ pl[t].det = "empty") =>
      /\ pl[t].pc = "done"
      /\ pl[t].ret = NoneVal
      /\ pl[t].swap = "none"
      /\ pl[t].img = NoImg
      /\ ~pl[t].wrote

\* Both images decoded and the target has no face.
C4_Witness == \E t \in Threads : pl[t].det = "empty" /\ pl[t].tgt = F_wall /\ pl[t].src = F_duo

\* C5: a returned path names a file this invocation wrote, which exists. (Stated
\* as the claim has it; the code returns the path whatever cv2.imwrite returned.)
C5_ReturnedPathExists ==
  \A t \in Threads :
    (pl[t].pc = "done" /\ pl[t].ret.tag = "path") =>
      pl[t].wrote /\ pl[t].ret \in DOMAIN output

\* C6: a start-up (with existing inputs) that found the model file absent has
\* called verify_model and reached its download by the time the program ends.
C6_AbsentModelIsFetched ==
  (/\ pc = "exit"
   /\ entry \in {"gui", "cli"}
   /\ model_at_start = "absent"
   /\ entry = "cli" => Exists(args.source) /\ Exists(args.target))
  => vm_outcome # "none"

\* C7: verify_model called with the file present returns True and opens no
\* connection, creates no directory and writes no file.
C7_PresentModelNoEffect ==
  [][(pc = "constructed" /\ pc' = "verified" /\ model_file # "absent") =>
       /\ vm_ret' = "True"
       /\ UNCHANGED <<model_file, fetches, mkdirs, vm_outcome, output>>]_vars

\* verify_model returned True without having downloaded.
C7_Witness == pc = "verified" /\ vm_ret = "True" /\ vm_outcome = "none" /\ fetches = 0

\* C8: verify_model called with the file absent returns True or False, never
\* an exception; True only when the one fetch succeeded and the file was written;
\* False whenever a step of the download failed.
C8_DownloadResult ==
  [][(pc = "constructed" /\ pc' = "verified" /\ model_file = "absent") =>
       /\ vm_ret' \in {"True", "False"}
       /\ fetches' <= fetches + 1
       /\ vm_ret' = "True" =>
            vm_outcome' = "ok" /\ model_file' = "complete" /\ fetches' = fetches + 1
       /\ vm_outcome' # "ok" => vm_ret' = "False"]_vars

\* A download failed while the response was written, and False came back.
C8_Witness == pc = "verified" /\ vm_outcome = "write_failed" /\ vm_ret = "False"

\* C9: after verify_model returned False the program ends without entering the
\* main loop and without calling process_face_swap, and cli.main returns 1.
C9_UnavailableModelStops ==
  vm_ret = "False" =>
    /\ pc \in {"verified", "exit"}
    /\ pl[Main] = IdlePl
    /\ nthreads = 0
    /\ pc = "exit" => exit_code = (IF entry = "cli" THEN 1 ELSE 0)

\* cli.main has returned 1 after a failed download.
C9_Witness == vm_ret = "False" /\ pc = "exit" /\ entry = "cli" /\ exit_code = 1

\* C10: cli.main returns 0 or 1, and 0 only when the swap engine succeeded, the
\* result was saved and, with --output, copied. (Stated as the claim has it.)
C10_ExitZeroOnlyOnSuccess ==
  (entry = "cli" /\ pc = "exit") =>
    /\ exit_code \in {0, 1}
    /\ exit_code = 0 =>
         /\ pl[Main].swap = "ok"
         /\ pl[Main].wrote
         /\ args.output => copied

\* C11: when a path given on the command line does not exist, cli.main only
\* ever returns 1 from its start: the constructor is never reached, verify_model
\* is not called, nothing is fetched and process_face_swap is not called.
C11_MissingInputStopsFirst ==
  (entry = "cli" /\ (~Exists(args.source) \/ ~Exists(args.target))) =>
    /\ pc \in {"start", "exit"}
    /\ pc = "exit" => exit_code = 1
    /\ vm_ret = "none" /\ vm_outcome = "none" /\ fetches = 0 /\ mkdirs = 0
    /\ pl[Main] = IdlePl
    /\ output = [x \in {} |-> NoImg]

\* cli.main has returned 1 for a missing target while the source exists and the
\* model file is absent.
C11_Witness ==
  /\ entry = "cli" /\ pc = "exit" /\ exit_code = 1
  /\ Exists(args.source) /\ ~Exists(args.target)
  /\ model_file = "absent"

\* s is an initial part of u.
IsPrefix(s, u) == Len(s) <= Len(u) /\ s = SubSeq(u, 1, Len(s))

\* C12: for quality 1, 2 and 3 process_face_swap makes exactly the calls [basic],
\* [basic, skin, facial features] and [basic, skin, facial features, colour
\* correction, hdr], each once and in that order (the calls made so far are always
\* an initial part of that list), the list of a level is an initial part of the
\* next level's, and the file is written only after every call of the level was
\* made, holding the last call's result.
C12_StagesPerQuality ==
  LET table == << <<"basic">>,
                  <<"basic", "skin", "facial_features">>,
                  <<"basic", "skin", "facial_features", "color_correction", "hdr">> >>
  IN /\ IsPrefix(table[1], table[2]) /\ IsPrefix(table[2], table[3])
     /\ \A t \in Threads :
          pl[t].q \in 1..3 =>
            /\ IsPrefix(pl[t].calls, table[pl[t].q])
            /\ (pl[t].pc = "save" \/ pl[t].wrote \/ pl[t].ret.tag = "path") =>
                 pl[t].calls = table[pl[t].q]
            /\ pl[t].wrote => output[pl[t].ret] = pl[t].img

\* A worker thread's run at quality 3 has written its file.
C12_Witness ==
  \E w \in Workers : pl[w].q = 3 /\ pl[w].wrote /\ Len(pl[w].calls) = 5

\* C13: for every level in 1..3 apply_all_enhancements makes the enhancement calls
\* process_face_swap makes for that quality level, in the same order, and returns
\* what that chain of calls gives; at level 3 these are the calls of level 2,
\* then the colour correction, then the HDR effect. (Stated as the claim has it;
\* apply_all_enhancements never calls enhance_color_correction.)
C13_ApplyAllMatchesTable ==
  (call.fn = "apply_all_enhancements" /\ call.level \in 1..3) =>
    /\ call.calls = StagesFor(call.level)
    /\ call.ret = RunStages(StagesFor(call.level), call.image, call.regions)
    /\ call.level = 3 =>
         call.calls = StagesFor(2) \o <<"color_correction", "hdr">>

\* C14: an invocation whose swap engine failed, and in which nothing else failed,
\* has returned a path, and the file written holds the pixels of the target image
\* as it was decoded. (Stated as the claim has it; the enhancement calls are made
\* on the copy of the target all the same.)
C14_FailedSwapWritesTarget ==
  \A t \in Threads :
    (pl[t].swap = "failed" /\ pl[t].pc = "done" /\ ~pl[t].exc) =>
      /\ pl[t].ret.tag = "path"
      /\ pl[t].wrote => output[pl[t].ret] = TargetImg

\* C15: swap_face hands back an image and never an exception (the invocation goes
\* on to the enhancement calls, the except clause has not run); when the swap
\* model failed that image has the target's pixels; and after the call, whether
\* the swap model succeeded or failed and whatever it did to the array it was
\* given, target_img holds the pixels it was decoded with.
C15_SwapFaceContained ==
  \A t \in Threads :
    pl[t].swap # "none" =>
      /\ pl[t].timg = TargetImg
      /\ pl[t].pc = "enhance" =>
           /\ ~pl[t].exc /\ pl[t].ret = Pending
           /\ pl[t].swap = "failed" => pl[t].img = TargetImg
           /\ pl[t].swap = "ok" => pl[t].img = SwappedImg

\* A worker thread's swap_face call has returned after the swap model failed.
C15_Witness ==
  \E w \in Workers :
    pl[w].pc = "enhance" /\ pl[w].swap = "failed" /\ pl[w].img = TargetImg

\* The bounding boxes the detection network reports in the file p.
Detections(p) == {RawFaces(p)[i] : i \in 1..Len(RawFaces(p))}

\* C16: in an invocation that reached the swap step, the source face handed to
\* the swap engine is a detection of the source image with no detection to its
\* left (smallest x1), and the target face is one of the target image with no
\* detection to its left.
C16_LeftmostFaces ==
  \A t \in Threads :
    pl[t].det = "ok" =>
      /\ pl[t].sface \in Detections(pl[t].src)
      /\ \A f \in Detections(pl[t].src) : pl[t].sface[1] <= f[1]
      /\ pl[t].tface \in Detections(pl[t].tgt)
      /\ \A f \in Detections(pl[t].tgt) : pl[t].tface[1] <= f[1]

\* The swap engine was called with the leftmost of three source faces, which is
\* neither the first reported nor the largest, and the target's only face.
C16_Witness ==
  /\ pl[Main].swap # "none" /\ pl[Main].src = F_duo /\ pl[Main].tgt = F_solo
  /\ pl[Main].sface = <<5, 20, 45, 70>> /\ pl[Main].tface = <<30, 30, 70, 80>>

\* C17: for quality 1, 2 and 3 a returned path is, in the output directory,
\* <TIER>_<target stem>_con_rostro_de_<source stem>.png with TIER BASICO, HD and
\* ULTRA_HD and a stem the basename without its last extension; and the file
\* written is the one at the returned path (on the main thread, the only one in
\* the output directory).
C17_ResultName ==
  LET tier == <<"BASICO", "HD", "ULTRA_HD">>
      stem(p) == SubSeq(p.parts, 1, Len(p.parts) - 1)
  IN \A t \in Threads :
       (pl[t].pc = "done" /\ pl[t].ret.tag = "path" /\ pl[t].q \in 1..3) =>
         /\ pl[t].ret.tier = tier[pl[t].q]
         /\ pl[t].ret.target = stem(pl[t].tgt)
         /\ pl[t].ret.source = stem(pl[t].src)
         /\ pl[t].wrote => pl[t].ret \in DOMAIN output /\ output[pl[t].ret] = pl[t].img
         /\ (pl[t].wrote /\ t = Main) => DOMAIN output = {pl[t].ret}

\* ULTRA_HD_solo.v2_con_rostro_de_duo.png was written and returned.
C17_Witness ==
  /\ pl[Main].pc = "done" /\ pl[Main].wrote /\ pl[Main].q = 3
  /\ pl[Main].ret.tier = "ULTRA_HD"
  /\ pl[Main].ret.target = <<"solo", "v2">> /\ pl[Main].ret.source = <<"duo">>

\* C18: in a GUI run the pipeline call is made on a worker thread, never on the
\* UI thread, and a worker thread makes no Tk call of its own besides root.after:
\* it reads and writes no widget and no Tk variable. (Stated as the claim has it;
\* the worker calls self.quality_level.get() itself.)
C18_WorkerNeverTouchesTk ==
  /\ entry = "gui" => pl[Main] = IdlePl
  /\ \A w \in Workers : wk[w].tk_direct = {}

IsProgress(cb) == cb.kind = "progress"
IsOutcome(cb) == cb.kind \in {"success", "error"}

\* The progress values a run has posted, and its success and error notices.
ValuesPosted(w) ==
  LET s == SelectSeq(wk[w].posted, IsProgress) IN [i \in 1..Len(s) |-> s[i].value]
NoticesPosted(w) ==
  LET s == SelectSeq(wk[w].posted, IsOutcome) IN [i \in 1..Len(s) |-> s[i].kind]

\* C19: the progress values a run posts are within 0..100 and it never posts
\* more than one success or error notice; once its finally clause is reached, a
\* run whose pipeline call returned a path has posted 10, 30, 80, 100 in that
\* order and then one success notice as the last of these, and a run whose call
\* returned None or that raised has posted 0 as its last value and one error
\* notice.
C19_ProgressAndOutcome ==
  \A w \in Workers :
    /\ \A i \in 1..Len(ValuesPosted(w)) : ValuesPosted(w)[i] \in 0..100
    /\ Len(NoticesPosted(w)) <= 1
    /\ wk[w].pc \in {"finally", "done"} =>
         IF wk[w].outcome = "path"
         THEN /\ ValuesPosted(w) = <<10, 30, 80, 100>>
              /\ NoticesPosted(w) = <<"success">>
              /\ SubSeq(wk[w].posted, 1, 6) =
                   <<ProgressCb(10), ProgressCb(30), ProgressCb(80), Cb("show", 0),
                     ProgressCb(100), Cb("success", 0)>>
         ELSE /\ ValuesPosted(w) # <<>>
              /\ ValuesPosted(w)[Len(ValuesPosted(w))] = 0
              /\ NoticesPosted(w) = <<"error">>

\* A run has succeeded after an earlier one failed for want of a face.
C19_Witness ==
  /\ wk[1].pc = "done" /\ wk[1].outcome = "None"
  /\ wk[2].pc = "finally" /\ wk[2].outcome = "path"

\* C20: enhance_skin and enhance_facial_features, called on an image in which the
\* cascade reports no region, return an image with the pixels of their argument
\* and leave the argument's pixels as they were; so a quality 2 invocation on
\* such a target saves what enhance_basic returned.
C20_NoRegionsNoOp ==
  /\ (call.fn \in {"enhance_skin", "enhance_facial_features"} /\ call.regions = 0) =>
       call.ret = call.image /\ call.after = call.image
  /\ \A t \in Threads :
       (pl[t].pc = "save" /\ pl[t].q = 2 /\ CascadeRegions(pl[t].tgt) = 0) =>
         pl[t].img.stages = <<"basic">>

\* enhance_facial_features was called on an enhanced swap result without regions.
C20_Witness ==
  /\ call.fn = "enhance_facial_features" /\ call.regions = 0
  /\ call.image = Edit(SwappedImg, "basic") /\ call.ret = call.image

\* C21: get_largest_face returns None for an empty list; otherwise it returns a
\* face of the list whose area (x2-x1)*(y2-y1) no other face of the list exceeds,
\* and every face before it in the list has a smaller area.
C21_LargestFace ==
  call.fn = "get_largest_face" =>
    LET faces == call.input
        area(f) == (f[3] - f[1]) * (f[4] - f[2])
    IN IF faces = <<>> THEN call.out = <<>>
       ELSE \E i \in 1..Len(faces) :
              /\ call.out = <<faces[i]>>
              /\ \A j \in 1..Len(faces) : area(faces[j]) <= area(faces[i])
              /\ \A j \in 1..(i - 1) : area(faces[j]) < area(faces[i])

\* Of a small face and two of the same, larger area the first large one came back.
C21_Witness ==
  /\ call.fn = "get_largest_face"
  /\ call.input = << <<5, 5, 7, 7>>, <<10, 10, 13, 14>>, <<0, 0, 4, 3>> >>
  /\ call.out = << <<10, 10, 13, 14>> >>

\* C22: for every height, width and max_size of at least 1 resize_image returns
\* an image; neither of its sides exceeds max_size when a side of the input did;
\* each side is the input's side times the common scale, rounded down (so the
\* ratio of the sides is the input's within rounding); and the sides are the
\* input's when neither exceeded max_size. (Stated as the claim has it; a side
\* that rounds down to 0 makes cv2.resize raise.)
C22_ResizeWithinMax ==
  call.fn = "resize_image" =>
    LET h == call.input[1]
        w == call.input[2]
        m == call.input[3]
        long == IF h >= w THEN h ELSE w
    IN /\ call.out # <<>>
       /\ IF h > m \/ w > m
          THEN /\ call.out[1] <= m /\ call.out[2] <= m
               /\ call.out[1] * long <= h * m /\ h * m < (call.out[1] + 1) * long
               /\ call.out[2] * long <= w * m /\ w * m < (call.out[2] + 1) * long
          ELSE call.out = <<h, w>>

Abs(x) == IF x >= 0 THEN x ELSE 0 - x

\* The sum of the absolute differences of all values of two arrays of one shape.
RECURSIVE SumAbsDiff(_, _)
SumAbsDiff(a, b) ==
  IF a = <<>> THEN 0
  ELSE Abs(Head(a)[1] - Head(b)[1]) + Abs(Head(a)[2] - Head(b)[2])
       + Abs(Head(a)[3] - Head(b)[3]) + SumAbsDiff(Tail(a), Tail(b))

\* C23: convert_to_cv(convert_to_pil(img)) has img's shape, and the absolute
\* differences of its values from img's average less than 1.0 (their sum is less
\* than the number of values).
C23_RoundTrip ==
  call.fn = "convert_round_trip" =>
    /\ call.out.shape = call.input.shape
    /\ Len(call.out.data) = Len(call.input.data)
    /\ SumAbsDiff(call.input.data, call.out.data) < 3 * Len(call.input.data)

\* A column of a pure blue and a mixed pixel has made the round trip.
C23_Witness ==
  /\ call.fn = "convert_round_trip"
  /\ call.input = [shape |-> <<2, 1, 3>>, data |-> << <<255, 0, 0>>, <<7, 255, 0>> >>]
  /\ call.out = call.input

\* C24: swap_multiple_faces calls the swap model once per face in list order (up
\* to the call that raises), the first time on a copy of target_img and then on
\* the output of the call before; it returns the last output when no call raised,
\* target_img's pixels when one raised or the list is empty, always an image, and
\* target_img holds afterwards what it held before.
C24_SwapMultipleFaces ==
  call.fn = "swap_multiple_faces" =>
    LET faces == call.input
        n == Len(call.calls)
    IN /\ call.after = call.image
       /\ call.ret.base # "none"
       /\ n = (IF call.fails = 0 THEN Len(faces) ELSE call.fails)
       /\ \A k \in 1..n :
            /\ call.calls[k].face = faces[k]
            /\ call.calls[k].image =
                 IF k = 1 THEN call.image
                 ELSE Edit(call.calls[k - 1].image, faces[k - 1])
       /\ (call.fails = 0 /\ n > 0) =>
            call.ret = Edit(call.calls[n].image, faces[n])
       /\ (call.fails > 0 \/ faces = <<>>) => call.ret = call.image

\* The swap model raised on the second of two faces, after replacing the first.
C24_Witness ==
  /\ call.fn = "swap_multiple_faces"
  /\ call.input = <<"face_a", "face_b">>
  /\ call.fails = 2
  /\ call.calls[2].image = Edit(TargetImg, "face_a")
  /\ call.ret = TargetImg

\* The three parts of C25 on one axis: the crop lo..hi of the box side blo..bhi in
\* an image side of limit.
CropOrdered(lo, hi, limit) == 0 <= lo /\ lo <= hi /\ hi <= limit
CropContains(lo, hi, blo, bhi) == lo <= blo /\ bhi <= hi
CropLarger(lo, hi, blo, bhi, limit) ==
  (blo > 0 \/ bhi < limit) => hi - lo > bhi - blo

\* C25: the rectangle crop_face slices has 0 <= x1 <= x2 <= width and
\* 0 <= y1 <= y2 <= height; for a ratio of at least 1 and a box inside the image
\* it contains the box; and with the default ratio 1.5 it is longer than such a
\* box on each axis on which the image has room.
C25_CropFace ==
  call.fn = "crop_face" =>
    LET h == call.input[1]
        w == call.input[2]
        bbox == call.input[3]
        r == call.input[4]
        c == call.out
        inside == bbox[3] <= w /\ bbox[4] <= h
    IN /\ CropOrdered(c[1], c[3], w) /\ CropOrdered(c[2], c[4], h)
       /\ inside =>
            /\ CropContains(c[1], c[3], bbox[1], bbox[3])
            /\ CropContains(c[2], c[4], bbox[2], bbox[4])
       /\ (inside /\ r = DefaultRatio) =>
            /\ CropLarger(c[1], c[3], bbox[1], bbox[3], w)
            /\ CropLarger(c[2], c[4], bbox[2], bbox[4], h)

\* Run w is over: its thread is through the finally clause, the flag is cleared
\* and the button enabled again.
Ended(w) == wk[w].pc = "done" /\ ~processing /\ btn_enabled

\* on_process would start a run: neither of its two early returns is taken.
Accepts == ~Busy /\ source_img_path # NoPath /\ target_img_path # NoPath

\* C26: every run on_process starts comes to its end with the busy flag cleared
\* and the button enabled again, whatever the pipeline call did (returned a path,
\* returned None, raised), and on_process then starts a run when asked.
C26_RunEnds ==
  \A w \in Workers : (wk[w].pc = "begin") ~> (Ended(w) /\ Accepts)

\* A run that raised is over, and so is the run that was accepted after it and
\* returned None.
C26_Witness ==
  /\ wk[1].outcome = "raised" /\ Ended(1)
  /\ wk[2].outcome = "None" /\ Ended(2)
  /\ afterq = <<>>

\* C28: the step in which a run's pipeline call comes back without a path (None,
\* or an exception) leaves result_img_path as it was.
C28_FailedRunKeepsResult ==
  [][\A w \in Workers :
       (wk[w].pc = "running" /\ wk'[w].pc = "finally" /\ wk'[w].outcome # "path")
         => result_img_path' = result_img_path]_vars

\* C27: the pipeline call of a run is made with the source path, the target path
\* and the quality level that were selected as on_process accepted the request.
C27_RunUsesAcceptedSelection ==
  [][\A w \in Workers :
       (wk[w].pc = "call" /\ wk'[w].pc = "running") =>
         /\ pl'[w].src = wk[w].accepted.source
         /\ pl'[w].tgt = wk[w].accepted.target
         /\ pl'[w].q = wk[w].accepted.quality]_vars

\* C29: whenever process_face_swap has written a file, the tier in its name tells
\* the enhancement calls that were made (BASICO: the level 1 call; HD: the calls of
\* levels 1 and 2; ULTRA_HD: all five); and an invocation with a quality level
\* outside 1..3 writes no file and returns None.
C29_TierNamesStages ==
  \A t \in Threads :
    /\ pl[t].wrote =>
         /\ pl[t].ret.tier = "BASICO" => pl[t].calls = <<"basic">>
         /\ pl[t].ret.tier = "HD" => pl[t].calls = <<"basic", "skin", "facial_features">>
         /\ pl[t].ret.tier = "ULTRA_HD" =>
              pl[t].calls = <<"basic", "skin", "facial_features", "color_correction", "hdr">>
    /\ (pl[t].pc = "done" /\ pl[t].q \notin 1..3) =>
         ~pl[t].wrote /\ pl[t].ret = NoneVal

\* C30: the file at model_path, when there is one, is a completely downloaded
\* model (a download attempt that failed has left nothing there), and
\* verify_model has returned True only with such a file in place.
C30_OnlyCompleteModelFile ==
  /\ model_file \in {"absent", "complete"}
  /\ vm_ret = "True" => model_file = "complete"

====
